---------------------------- MODULE Spec2Model ----------------------------
(***************************************************************************)
(* Model of tolvera's Fractal vera (src/tolvera/vera/fractal.py): a Julia  *)
(* set generator that owns a time accumulator and a speed, and on every    *)
(* step redraws a W x H RGBA buffer with the escape-time kernel `draw`.    *)
(*                                                                         *)
(* Numbers.  The program computes in ti.f32.  The model computes in        *)
(* fixed point: the integer n stands for the real n / Scale, products and  *)
(* quotients are rounded to the nearest multiple of 1 / Scale, symmetric   *)
(* in the sign like IEEE round-to-nearest.  ti.cos is its Taylor           *)
(* polynomial, evaluated in the same arithmetic; it is within 0.002 of the *)
(* cosine for |t| <= 3.6, which covers every time value the                *)
(* specifications below reach.                                             *)
(***************************************************************************)
EXTENDS Integers, FiniteSets, TLC

\* ------------------------------------------------------------------ bounds
\* Largest grid the host may supply (tv.x, tv.y).
MaxX == 3
MaxY == 3
\* |time| never goes past MaxTicks speed quanta.
MaxTicks == 6
\* Speeds are the multiples -MaxSpeedMult .. MaxSpeedMult of a quantum.
MaxSpeedMult == 1
\* The quantum of the speeds of the wide-range specification, in 1 / Scale:
\* its multiples sweep a period of the cosine and meet, at 2.505, a point
\* that leaves the escape radius on its 50th iteration.
CoarseSpeed == 501
\* The cell-by-cell specification takes grids of at most this many cells.
MaxParCells == 4

\* --------------------------------------------------------- fixed point f32
\* Resolution of the fixed-point numbers that stand for ti.f32.
Scale == 1000

Abs(a) == IF a < 0 THEN -a ELSE a

\* a / b rounded to the nearest integer, halves away from zero (b > 0).
RDiv(a, b) == IF a >= 0 THEN (2 * a + b) \div (2 * b)
                        ELSE -((2 * (-a) + b) \div (2 * b))

\* The f32 product of two fixed-point numbers.
Mul(a, b) == RDiv(a * b, Scale)

\* ti.cos(t): 1 - t^2/2! + t^4/4! - ... - t^18/18!.
RECURSIVE CosTerms(_, _, _)
CosTerms(term, t2, k) ==
    IF k > 9 THEN 0
    ELSE LET next == -RDiv(Mul(term, t2), (2 * k - 1) * (2 * k))
         IN  next + CosTerms(next, t2, k + 1)

Cos(tm) == Scale + CosTerms(Scale, Mul(tm, tm), 1)

\* ------------------------------------------------------- kernel constants
\* uv * ti.Vector([1.5, 1.0])
StretchX == (3 * Scale) \div 2
StretchY == Scale
\* c = ti.Vector([-0.8, ti.cos(t) * 0.2])
CRe == -((8 * Scale) \div 10)
CImAmp == Scale \div 5
\* while z.norm() < 20 and iterations < 50
EscapeRadius == 20
MaxIterations == 50
\* val = 1.0 - iterations * 0.02
ValStep == Scale \div 50
\* ti.Vector([val, 0.3 * val, 0.8 * val, 1.0])
TintG == (3 * Scale) \div 10
TintB == (8 * Scale) \div 10
Opaque == Scale
\* kwargs.get("speed", 0.03)
DefaultSpeed == (3 * Scale) \div 100

\* ------------------------------------------------------------- the kernel
\* complex_sqr: (a, b)^2 = (a^2 - b^2, 2ab).
complex_sqr(z) == <<Mul(z[1], z[1]) - Mul(z[2], z[2]), Mul(2 * z[1], z[2])>>

\* z.norm() < r.  A component of magnitude r or more decides it alone, so
\* the squares are taken of numbers below r only.
NormBelow(z, r) ==
    /\ Abs(z[1]) < r * Scale
    /\ Abs(z[2]) < r * Scale
    /\ z[1] * z[1] + z[2] * z[2] < r * r * Scale * Scale

\* Mutant of LoopTest: the cap tested with <=, one iteration too many.
LoopTestInclusive(z, iterations) ==
    NormBelow(z, EscapeRadius) /\ iterations <= MaxIterations

\* Mutant of LoopTest: the escape comparison the wrong way round.
LoopTestFlipped(z, iterations) ==
    (~NormBelow(z, EscapeRadius)) /\ iterations < MaxIterations

\* The loop test of draw.
LoopTest(z, iterations) ==
    NormBelow(z, EscapeRadius) /\ iterations < MaxIterations

\* The escape loop of draw: the iteration count it ends with.
RECURSIVE EscapeLoop(_, _, _)
EscapeLoop(z, c, iterations) ==
    IF LoopTest(z, iterations)
    THEN LET sq == complex_sqr(z)
         IN  EscapeLoop(<<sq[1] + c[1], sq[2] + c[2]>>, c, iterations + 1)
    ELSE iterations

\* uv = ti.Vector([i / W, j / H]) * 2 - 1;  z = uv * ti.Vector([1.5, 1.0])
StartPoint(i, j, W, H) ==
    <<Mul(RDiv(i * Scale, W) * 2 - Scale, StretchX),
      Mul(RDiv(j * Scale, H) * 2 - Scale, StretchY)>>

\* Mutant of Param: the time used directly, without the cosine.
ParamNoCos(tm) == <<CRe, Mul(tm, CImAmp)>>

\* c = ti.Vector([-0.8, ti.cos(t) * 0.2])
Param(tm) == <<CRe, Mul(Cos(tm), CImAmp)>>

\* The iteration count of cell (i, j) of a W x H grid at time t.
Iterations(i, j, W, H, tm) == EscapeLoop(StartPoint(i, j, W, H), Param(tm), 0)

\* val = 1.0 - iterations * 0.02 and the colour map.
Colour(iterations) ==
    LET val == Scale - iterations * ValStep
    IN  <<val, Mul(TintG, val), Mul(TintB, val), Opaque>>

\* The colour draw writes to rgba[i, j] at time t.
evaluate(i, j, W, H, tm) == Colour(Iterations(i, j, W, H, tm))

\* ------------------------------------------------------------ input sets
\* The two Fractal objects built on the same host (self.tv).
Gens == {1, 2}

Grids == (1 .. MaxX) \X (1 .. MaxY)

\* ti.ndrange(self.tv.x, self.tv.y)
Cells(W, H) == (0 .. W - 1) \X (0 .. H - 1)

\* Speeds the host passes: multiples of the default speed, and, for the
\* wide-range specification, multiples of CoarseSpeed.
Speeds == {k * DefaultSpeed : k \in -MaxSpeedMult .. MaxSpeedMult}
WideSpeeds == {k * CoarseSpeed : k \in -MaxSpeedMult .. MaxSpeedMult}

MaxTime == MaxTicks * DefaultSpeed
MaxWideTime == MaxTicks * CoarseSpeed

Times == {k * DefaultSpeed : k \in -MaxTicks .. MaxTicks}
             \cup {k * CoarseSpeed : k \in -MaxTicks .. MaxTicks}

\* One pass of draw over a W x H grid at time tm: evaluate on every cell.
\* The passes of all grids and times are tabulated once (@@ <<>> makes TLC
\* build the table instead of keeping the expression).
KernelTable ==
    [g \in Grids, tm \in Times |->
        [c \in Cells(g[1], g[2]) |->
            evaluate(c[1], c[2], g[1], g[2], tm)] @@ <<>>] @@ <<>>

Frame(W, H, tm) == KernelTable[<<W, H>>, tm]

\* A cell of a Pixels buffer nothing has drawn to (a zeroed Taichi field).
Unwritten == <<0, 0, 0, 0>>

\* ------------------------------------------------------------------ state
VARIABLES
    tv,       \* the host: [x |-> width, y |-> height]
    time,     \* time[g]: self.time[None]
    speed,    \* speed[g]: self.speed[None]
    px,       \* px[g]: self.px.px.rgba, a colour per cell
    pc,       \* "idle", or the method in flight: "step" or "call"
    cur,      \* the generator whose method is in flight (0 when idle)
    t,        \* the kernel's local t, read from self.time when draw starts
    pending,  \* the cells the kernel pass in flight has still to process
    phase,    \* history: "Idle" until g's first step returns, then "Running"
    n,        \* history: steps of g since construction, -1 once set_speed
              \* was called or more than MaxTicks steps were taken
    zs        \* history: steps of g (2 for two or more) since set_speed(0),
              \* -1 when the last speed given to g was not set_speed(0)

vars == <<tv, time, speed, px, pc, cur, t, pending, phase, n, zs>>

kernel == <<pc, cur, t, pending>>

\* Fractal.__init__ for every generator in gens, with the speed of its
\* kwargs; the other generators are built with the default speed.
Construct(gens, speedSet, grids) ==
    \E g \in grids, s \in [gens -> speedSet] :
        /\ tv = [x |-> g[1], y |-> g[2]]
        /\ time = [f \in Gens |-> 0]
        /\ speed = [f \in Gens |-> IF f \in gens THEN s[f] ELSE DefaultSpeed]
        /\ px = [f \in Gens |-> [c \in Cells(g[1], g[2]) |-> Unwritten]]
        /\ pc = "idle"
        /\ cur = 0
        /\ t = 0
        /\ pending = {}
        /\ phase = [f \in Gens |-> "Idle"]
        /\ n = [f \in Gens |-> 0]
        /\ zs = [f \in Gens |-> -1]

Init == Construct(Gens, Speeds, Grids)

\* Mutant of NewSpeed: negative speeds refused (clamped to 0).
NewSpeedClamped(v) == IF v < 0 THEN 0 ELSE v

\* self.speed[None] = speed
NewSpeed(v) == v

\* Fractal.set_speed
set_speed(g, v) ==
    /\ pc = "idle"
    /\ speed' = [speed EXCEPT ![g] = NewSpeed(v)]
    /\ n' = [n EXCEPT ![g] = -1]
    /\ zs' = [zs EXCEPT ![g] = IF v = 0 THEN 0 ELSE -1]
    /\ UNCHANGED <<tv, time, px, phase, kernel>>

\* Mutant of NextTime: = instead of +=.
NextTimeAssign(g) == speed[g]

\* Mutant of NextTime: the speed subtracted.
NextTimeBackwards(g) == time[g] - speed[g]

\* Mutant of NextTime: a speed of 0 taken for "no speed given".
NextTimeOrDefault(g) ==
    time[g] + (IF speed[g] = 0 THEN DefaultSpeed ELSE speed[g])

\* self.time[None] += self.speed[None]
NextTime(g) == time[g] + speed[g]

\* Mutant of draw: the kernel runs before time is advanced.
drawBeforeAdvance(g) == Frame(tv.x, tv.y, time[g])

\* Mutant of draw: a cell is overwritten only by a darker colour.
drawKeepDarker(g) ==
    [c \in Cells(tv.x, tv.y) |->
        LET new == Frame(tv.x, tv.y, time'[g])[c]
        IN  IF phase[g] = "Running" /\ px[g][c][1] < new[1]
            THEN px[g][c] ELSE new]

\* self.draw(), as a whole: the kernel reads self.time, which step has
\* advanced, and writes every cell.
draw(g) == Frame(tv.x, tv.y, time'[g])

\* The history of g after one more step.
Stepped(g) ==
    /\ phase' = [phase EXCEPT ![g] = "Running"]
    /\ n' = [n EXCEPT ![g] = IF @ \in 0 .. MaxTicks - 1 THEN @ + 1 ELSE -1]
    /\ zs' = [zs EXCEPT ![g] = IF @ = -1 THEN -1 ELSE IF @ = 0 THEN 1 ELSE 2]

\* Fractal.step
step(g) ==
    /\ pc = "idle"
    /\ time' = [time EXCEPT ![g] = NextTime(g)]
    /\ px' = [px EXCEPT ![g] = draw(g)]
    /\ Stepped(g)
    /\ UNCHANGED <<tv, speed, kernel>>

\* Fractal.__call__: self.step(), then return self.px.  The value returned
\* is the handle of the buffer px[g]; the state changes as step changes it.
call(g) == step(g)

\* The model follows time up to bound in magnitude.
InRange(g, bound) == Abs(NextTime(g)) <= bound

Next ==
    \E g \in Gens :
        \/ \E v \in Speeds : set_speed(g, v)
        \/ InRange(g, MaxTime) /\ step(g)
        \/ InRange(g, MaxTime) /\ call(g)

Spec == Init /\ [][Next]_vars

\* ------------------------------------------------ wide range of time values
\* One generator, driven with coarse speeds: time sweeps a whole period of
\* the cosine, so that cells that never escape occur.
InitWide == Construct({1}, WideSpeeds, Grids)

NextWide ==
    \E g \in {1} :
        \/ \E v \in WideSpeeds : set_speed(g, v)
        \/ InRange(g, MaxWideTime) /\ step(g)
        \/ InRange(g, MaxWideTime) /\ call(g)

SpecWide == InitWide /\ [][NextWide]_vars

\* ---------------------------------------------------- the pass, per cell
\* The kernel of draw as Taichi runs it: t is read once, then the cells are
\* processed in an order the runtime chooses, each writing its own slot.

\* Mutant of CellWrite: the slot indexed [j, i].
CellWriteTransposed(buf, c, tm) ==
    IF <<c[2], c[1]>> \in DOMAIN buf
    THEN [buf EXCEPT ![<<c[2], c[1]>>] = Frame(tv.x, tv.y, tm)[c]]
    ELSE buf

\* self.px.px.rgba[i, j] = ... for the cell c = (i, j), with the local t = tm
CellWrite(buf, c, tm) == [buf EXCEPT ![c] = Frame(tv.x, tv.y, tm)[c]]

\* step (m = "step") or __call__ (m = "call") up to the launch of the kernel.
step_begin(g, m) ==
    /\ pc = "idle"
    /\ time' = [time EXCEPT ![g] = NextTime(g)]
    /\ pc' = m
    /\ cur' = g
    /\ t' = time'[g]
    /\ pending' = Cells(tv.x, tv.y)
    /\ UNCHANGED <<tv, speed, px, phase, n, zs>>

\* One cell of the pass.
draw_cell(c) ==
    /\ pc # "idle"
    /\ c \in pending
    /\ px' = [px EXCEPT ![cur] = CellWrite(px[cur], c, t)]
    /\ pending' = pending \ {c}
    /\ UNCHANGED <<tv, time, speed, pc, cur, t, phase, n, zs>>

\* The kernel has processed every cell: draw, and with it step, returns.
step_end ==
    /\ pc # "idle"
    /\ pending = {}
    /\ pc' = "idle"
    /\ cur' = 0
    /\ Stepped(cur)
    /\ UNCHANGED <<tv, time, speed, px, t, pending>>

InitPar ==
    Construct({1}, Speeds, {g \in Grids : g[1] * g[2] <= MaxParCells})

NextPar ==
    \/ \E g \in {1} :
        \/ \E v \in Speeds : set_speed(g, v)
        \/ InRange(g, MaxTime) /\ step_begin(g, "step")
        \/ InRange(g, MaxTime) /\ step_begin(g, "call")
    \/ \E c \in Cells(tv.x, tv.y) : draw_cell(c)
    \/ step_end

SpecPar == InitPar /\ [][NextPar]_vars

\* ------------------------------------------------------------ properties
Running(g) == phase[g] = "Running"

GridCells == Cells(tv.x, tv.y)

\* The brightness val of a colour: its red component.
Val(colour) == colour[1]

\* The start point stays inside the escape radius for the first k tests of
\* the loop: z_0 .. z_(k-1) all have norm below EscapeRadius.
RECURSIVE StaysInside(_, _, _)
StaysInside(z, c, k) ==
    \/ k = 0
    \/ /\ NormBelow(z, EscapeRadius)
       /\ LET sq == complex_sqr(z)
          IN  StaysInside(<<sq[1] + c[1], sq[2] + c[2]>>, c, k - 1)

\* C1: a generator built with speed s on which set_speed was never called
\* holds time = n * s after n steps.
C1_TimeIsStepsTimesSpeed ==
    \A g \in Gens : n[g] >= 0 => time[g] = n[g] * speed[g]

C1_Witness ==
    \E g \in Gens :
        /\ n[g] = 3
        /\ speed[g] = DefaultSpeed
        /\ time[g] = 3 * DefaultSpeed

\* C2: once a step or a call of g has returned, every cell of g's buffer
\* holds evaluate(i, j, W, H, time[g]), the colour of the current time.
C2_BufferIsFrameOfTime ==
    \A g \in Gens :
        Running(g) =>
            \A c \in GridCells : px[g][c] = Frame(tv.x, tv.y, time[g])[c]

\* A step has just moved g to a time whose frame differs from the frame of
\* the time before it.
C2_Witness ==
    \E g \in Gens :
        /\ Running(g)
        /\ n[g] >= 2
        /\ px[g] # Frame(tv.x, tv.y, time[g] - speed[g])

\* C3, as claimed: the count is in 0 .. 50, the brightness written is
\* 1.0 - count * 0.02 and lies in [0.0, 1.0], and the count is 50 exactly
\* when the point has not escaped in the first 50 iterations: none of z_0,
\* z_1 .. z_50 has norm 20 or more.
C3_Original_FiftyIffNeverEscaped ==
    \A g \in Gens :
        Running(g) =>
            \A c \in GridCells :
                LET it == Iterations(c[1], c[2], tv.x, tv.y, time[g])
                    val == Val(px[g][c])
                IN  /\ it \in 0 .. MaxIterations
                    /\ val = Scale - it * ValStep
                    /\ val \in 0 .. Scale
                    /\ it = MaxIterations <=>
                           StaysInside(StartPoint(c[1], c[2], tv.x, tv.y),
                                       Param(time[g]), MaxIterations + 1)

\* C3, amended: the count is in 0 .. 50, the brightness written is
\* 1.0 - count * 0.02 and lies in [0.0, 1.0], and the count is 50 exactly
\* when the 50 loop tests all found the point inside the radius: z_0 and
\* the results z_1 .. z_49 of the first 49 iterations have norm below 20.
C3_IterationsAndValBounded ==
    \A g \in Gens :
        Running(g) =>
            \A c \in GridCells :
                LET it == Iterations(c[1], c[2], tv.x, tv.y, time[g])
                    val == Val(px[g][c])
                IN  /\ it \in 0 .. MaxIterations
                    /\ val = Scale - it * ValStep
                    /\ val \in 0 .. Scale
                    /\ it = MaxIterations <=>
                           StaysInside(StartPoint(c[1], c[2], tv.x, tv.y),
                                       Param(time[g]), MaxIterations)

\* A frame with a cell that took 50 iterations and left the radius on the
\* last of them (val 0.0), beside a cell that escaped earlier.
C3_Witness ==
    \E g \in Gens :
        /\ Running(g)
        /\ \E c \in GridCells :
               /\ Val(px[g][c]) = 0
               /\ ~StaysInside(StartPoint(c[1], c[2], tv.x, tv.y),
                               Param(time[g]), MaxIterations + 1)
        /\ \E c \in GridCells : Val(px[g][c]) > 0

\* C4, as claimed: time is never negative and no step of the program makes
\* it smaller.
C4_Original_TimeNonNegativeMonotone ==
    [][\A g \in Gens : time'[g] >= 0 /\ time'[g] >= time[g]]_vars

\* C4, amended: from a time >= 0, with a speed >= 0, no operation makes time
\* smaller or negative.
C4_TimeMonotoneUnderNonNegativeSpeed ==
    [][\A g \in Gens :
          (time[g] >= 0 /\ speed[g] >= 0) =>
              (time'[g] >= time[g] /\ time'[g] >= 0)]_vars

\* Three steps at a positive speed.
C4_Witness ==
    \E g \in Gens : n[g] = 3 /\ speed[g] > 0 /\ time[g] > 0

\* C5: after set_speed(0), the first step leaves time unchanged, and the
\* second leaves time and every cell of the buffer unchanged.
C5_FrozenAtSpeedZero ==
    [][\A g \in Gens :
          /\ (zs[g] = 0 /\ zs'[g] = 1) => time'[g] = time[g]
          /\ (zs[g] = 1 /\ zs'[g] = 2) =>
                 (time'[g] = time[g] /\ px'[g] = px[g])]_vars

\* Two steps after set_speed(0), at a time other than 0.
C5_Witness ==
    \E g \in Gens : zs[g] = 2 /\ speed[g] = 0 /\ time[g] # 0 /\ Running(g)

\* C6: one step at a negative speed from time 0 gives a negative time; and
\* two generators at opposite times hold the same buffer, cell for cell.
C6_MirrorTimeSameBuffer ==
    /\ \A g \in Gens : (n[g] = 1 /\ speed[g] < 0) => time[g] < 0
    /\ (Running(1) /\ Running(2) /\ time[1] = -time[2]) => px[1] = px[2]

\* One stepped once with speed -0.03, the other once with speed 0.03.
C6_Witness ==
    /\ n[1] = 1 /\ speed[1] = -DefaultSpeed /\ time[1] = -DefaultSpeed
    /\ n[2] = 1 /\ speed[2] = DefaultSpeed /\ time[2] = DefaultSpeed
    /\ Running(1) /\ Running(2)

\* C7: two generators on the same grid that are at the same time hold the
\* same buffer, whatever their histories and speeds.
C7_SameTimeSameBuffer ==
    (Running(1) /\ Running(2) /\ time[1] = time[2]) => px[1] = px[2]

\* Same time, reached by steps alone and by steps and set_speed, at
\* different speeds.
C7_Witness ==
    /\ Running(1) /\ Running(2)
    /\ time[1] = time[2] /\ time[1] # 0
    /\ n[1] >= 2 /\ n[2] = -1
    /\ speed[1] # speed[2]

\* C8: set_speed(v) can be called with every v, sets the speed to v and
\* leaves time and buffer alone; a step adds the speed in force to time;
\* and time changes in a step only.
C8_SetSpeedFrame ==
    /\ [](\A g \in Gens, v \in WideSpeeds : ENABLED set_speed(g, v))
    /\ [][\A g \in Gens :
             /\ \A v \in WideSpeeds :
                    set_speed(g, v) =>
                        (speed'[g] = v /\ time' = time /\ px' = px)
             /\ step(g) => time'[g] = time[g] + speed[g]
             /\ time'[g] # time[g] => (step(g) \/ call(g))]_vars

\* A negative speed was set after a step, and a later step used it.
C8_Witness ==
    \E g \in Gens :
        /\ n[g] = -1
        /\ speed[g] < 0
        /\ time[g] < 0
        /\ Running(g)

\* C9: during a pass every processed cell holds the colour of the time read
\* at the start of the pass and every other cell still holds what it held
\* before the pass; so when the pass ends the buffer is the frame of that
\* time, in whatever order the cells were processed.
C9_PassOrderIndependent ==
    /\ pc # "idle" =>
          /\ t = time[cur]
          /\ \A c \in GridCells \ pending :
                 px[cur][c] = Frame(tv.x, tv.y, t)[c]
          /\ \A c \in pending :
                 px[cur][c] = IF Running(cur)
                              THEN Frame(tv.x, tv.y, t - speed[cur])[c]
                              ELSE Unwritten
    /\ pc = "idle" =>
          \A g \in Gens :
              Running(g) => px[g] = Frame(tv.x, tv.y, time[g])

\* Half-way through a pass over a 2 x 2 grid whose frame differs from the
\* frame before.
C9_Witness ==
    /\ pc # "idle"
    /\ Cardinality(pending) = 2
    /\ Cardinality(GridCells) = 4
    /\ Running(cur)
    /\ Frame(tv.x, tv.y, t) # Frame(tv.x, tv.y, t - speed[cur])

\* C10: every start point is inside the escape radius, so every cell takes
\* at least one iteration: no brightness written exceeds 0.98.
C10_AtLeastOneIteration ==
    \A g \in Gens :
        Running(g) =>
            \A c \in GridCells :
                /\ NormBelow(StartPoint(c[1], c[2], tv.x, tv.y), EscapeRadius)
                /\ Val(px[g][c]) <= Scale - ValStep
                /\ Val(px[g][c]) # Scale

\* The corner cell (0, 0), the farthest start point, has been drawn.
C10_Witness ==
    \E g \in Gens :
        /\ Running(g)
        /\ Val(px[g][<<0, 0>>]) = Scale - 3 * ValStep

=============================================================================
